---- MODULE Spec2Model ----
(***************************************************************************)
(* SurakshaPay fraud detection microservice (fraud_detection_service.py).  *)
(*                                                                         *)
(* Text is a sequence of one-character strings; a character outside ASCII  *)
(* is written by its code point ("U0915").  Time is counted in minutes.    *)
(* A request body is a function from the keys it carries to their values;  *)
(* an amount is [kind |-> "num", paise |-> 100 * amount], or a value that  *)
(* is no number ([kind |-> "str"], [kind |-> "null"]).                     *)
(***************************************************************************)
EXTENDS Integers, Sequences, FiniteSets, TLC

VARIABLES
    transaction_history,    \* FraudDetectionService.transaction_history: user_id -> list
    voice_command_history,  \* FraudDetectionService.voice_command_history: user_id -> list
    now,                    \* the wall clock, datetime.now(), in minutes
    data,                   \* the body of the request served at this instant
    response,               \* the response to it ([status |-> 0]: none yet)
    fraud_indicators,       \* detect_fraud's local list when that call ended
    appended,               \* every record handed to list.append so far, in order
    heap,                   \* list objects by identity (threaded execution)
    dict,                   \* the list transaction_history[USER] is bound to, 0 if absent
    pc,                     \* each request thread's position in log_transaction
    ref                     \* each request thread's operand: the list it loaded or built

vars == <<transaction_history, voice_command_history, now, data, response,
          fraud_indicators, appended, heap, dict, pc, ref>>

----------------------------------------------------------------------------
(* Text: str.lower, substring search, and the part of the re module used.  *)

Upper == <<"A","B","C","D","E","F","G","H","I","J","K","L","M",
           "N","O","P","Q","R","S","T","U","V","W","X","Y","Z">>
LowerOf == <<"a","b","c","d","e","f","g","h","i","j","k","l","m",
             "n","o","p","q","r","s","t","u","v","w","x","y","z">>
Digit == {"0","1","2","3","4","5","6","7","8","9"}
Letter == {Upper[i] : i \in DOMAIN Upper} \cup {LowerOf[i] : i \in DOMAIN LowerOf}
Space == {" "}
\* The letters (category L) among the characters of the keyword catalogue:
\* \w matches them, and not the vowel signs that follow them.
IndicLetters ==
    {"U0906", "U0907", "U0915", "U0916", "U0917", "U091C", "U091F", "U0924",
     "U0926", "U0928", "U092A", "U092C", "U092D", "U092E", "U092F", "U0930",
     "U0932", "U0936", "U0938", "U0939", "U0995", "U0996", "U0997", "U099C",
     "U099F", "U09A8", "U09AA", "U09AC", "U09AE", "U09AF", "U09B0", "U09B2",
     "U09B8", "U09B9", "U0B8E", "U0B95", "U0B9A", "U0B9C", "U0B9F", "U0BA3",
     "U0BA4", "U0BA8", "U0BAA", "U0BAE", "U0BAF", "U0BB0", "U0BB1", "U0BB2",
     "U0BB3", "U0BB5", "U0C06", "U0C13", "U0C15", "U0C16", "U0C17", "U0C1C",
     "U0C1F", "U0C21", "U0C26", "U0C28", "U0C2A", "U0C2C", "U0C2E", "U0C2F",
     "U0C30", "U0C32", "U0C38"}
WordChar == Letter \cup Digit \cup {"_"} \cup IndicLetters

UpperSet == {Upper[i] : i \in DOMAIN Upper}
LowerMap == [c \in UpperSet |-> LowerOf[CHOOSE i \in DOMAIN Upper : Upper[i] = c]]
LowerChar(c) == IF c \in UpperSet THEN LowerMap[c] ELSE c

\* str.lower()
Lower(s) == [i \in DOMAIN s |-> LowerChar(s[i])]

\* sub in s
Contains(s, sub) ==
    \E i \in 0..(Len(s) - Len(sub)) : \A j \in 1..Len(sub) : s[i + j] = sub[j]

\* str.strip()
RECURSIVE Strip(_)
Strip(s) ==
    IF s = <<>> THEN s
    ELSE IF Head(s) \in Space THEN Strip(Tail(s))
    ELSE IF s[Len(s)] \in Space THEN Strip(SubSeq(s, 1, Len(s) - 1))
    ELSE s

\* float() of a run of decimal digits
DigitValue(c) ==
    CASE c = "0" -> 0 [] c = "1" -> 1 [] c = "2" -> 2 [] c = "3" -> 3 [] c = "4" -> 4
      [] c = "5" -> 5 [] c = "6" -> 6 [] c = "7" -> 7 [] c = "8" -> 8 [] c = "9" -> 9

RECURSIVE Float(_)
Float(s) == IF s = <<>> THEN 0 ELSE 10 * Float(SubSeq(s, 1, Len(s) - 1)) + DigitValue(s[Len(s)])

(* A pattern is a tree: <<"chr", c>> one character; <<"lit", s>> the        *)
(* characters of s; <<"cls", set>> one character of a class (\d: Digit,    *)
(* \s: Space, [a-zA-Z\s]: NameChar); <<"wb">> \b; <<"rep", p, lo, hi>>      *)
(* p{lo,hi},                                                                *)
(* greedy, p one character wide, hi = -1 for no limit; <<"cat", ps>>;       *)
(* <<"alt", ps>>; <<"grp", k, p>> group k.                                  *)
NameChar == Letter \cup Space

Lit(s) == <<"lit", s>>
Cat(ps) == <<"cat", ps>>
Alt(ps) == <<"alt", ps>>
Plus(p) == <<"rep", p, 1, -1>>
Opt(p) == <<"rep", p, 0, 1>>
Rep(p, lo, hi) == <<"rep", p, lo, hi>>
Grp(k, p) == <<"grp", k, p>>
Cls(set) == <<"cls", set>>
WB == <<"wb">>

IsWordAt(s, i) == i >= 1 /\ i <= Len(s) /\ s[i] \in WordChar
WordBoundary(s, i) == IsWordAt(s, i - 1) # IsWordAt(s, i)

OneChar(p, s, i) ==
    /\ i <= Len(s)
    /\ IF p[1] = "chr" THEN s[i] = p[2] ELSE s[i] \in p[2]

\* how many characters from position i on match the one-character pattern p
RECURSIVE RunLen(_, _, _, _)
RunLen(p, s, i, hi) ==
    IF hi # 0 /\ OneChar(p, s, i) THEN 1 + RunLen(p, s, i + 1, hi - 1) ELSE 0

RECURSIVE Flatten(_)
Flatten(ss) == IF ss = <<>> THEN <<>> ELSE Head(ss) \o Flatten(Tail(ss))

NoGroups == <<<<0, 0>>, <<0, 0>>>>

(* Match(p, s, i, g): the ways p matches s from position i, in the order    *)
(* the backtracking matcher tries them, each with the position after the    *)
(* match and the groups' spans.                                             *)
RECURSIVE Match(_, _, _, _)
RECURSIVE MatchCat(_, _, _, _, _)
Match(p, s, i, g) ==
    CASE p[1] \in {"chr", "cls"} ->
            IF OneChar(p, s, i) THEN <<[pos |-> i + 1, groups |-> g]>> ELSE <<>>
      [] p[1] = "lit" ->
            IF /\ i + Len(p[2]) - 1 <= Len(s)
               /\ \A j \in DOMAIN p[2] : s[i + j - 1] = p[2][j]
            THEN <<[pos |-> i + Len(p[2]), groups |-> g]>>
            ELSE <<>>
      [] p[1] = "wb" ->
            IF WordBoundary(s, i) THEN <<[pos |-> i, groups |-> g]>> ELSE <<>>
      [] p[1] = "rep" ->
            LET run == RunLen(p[2], s, i, p[4])
            IN  IF run < p[3] THEN <<>>
                ELSE [k \in 1..(run - p[3] + 1) |-> [pos |-> i + run - k + 1, groups |-> g]]
      [] p[1] = "cat" -> MatchCat(p[2], 1, s, i, g)
      [] p[1] = "alt" -> Flatten([k \in DOMAIN p[2] |-> Match(p[2][k], s, i, g)])
      [] p[1] = "grp" ->
            LET inner == Match(p[3], s, i, g)
            IN  [k \in DOMAIN inner |->
                    [pos |-> inner[k].pos,
                     groups |-> [inner[k].groups EXCEPT ![p[2]] = <<i, inner[k].pos>>]]]
\* the patterns ps[n], ps[n + 1], ... one after the other
MatchCat(ps, n, s, i, g) ==
    IF n > Len(ps) THEN <<[pos |-> i, groups |-> g]>>
    ELSE LET first == Match(ps[n], s, i, g)
         IN  IF first = <<>> THEN <<>>
             ELSE Flatten([k \in DOMAIN first |->
                             MatchCat(ps, n + 1, s, first[k].pos, first[k].groups)])

\* re.search(p, s): truthy when p matches somewhere in s
Search(p, s) == \E i \in 1..(Len(s) + 1) : Match(p, s, i, NoGroups) # <<>>

\* the first way p matches s at the leftmost start from position i on
RECURSIVE FirstMatch(_, _, _)
FirstMatch(p, s, i) ==
    LET ways == Match(p, s, i, NoGroups)
    IN  IF ways # <<>> THEN ways[1] ELSE FirstMatch(p, s, i + 1)

\* the match object of re.search(p, s), for a pattern found in s
SearchMatch(p, s) == FirstMatch(p, s, 1)

\* match.group(k)
Group(s, m, k) == SubSeq(s, m.groups[k][1], m.groups[k][2] - 1)

----------------------------------------------------------------------------
(* The pattern catalogue.                                                  *)

GAMBLING_KEYWORDS ==
    {<<"b","e","t">>,
     <<"g","a","m","b","l","i","n","g">>,
     <<"c","a","s","i","n","o">>,
     <<"p","o","k","e","r">>,
     <<"l","o","t","t","e","r","y">>,
     <<"j","a","c","k","p","o","t">>,
     <<"w","a","g","e","r">>,
     <<"s","t","a","k","e">>,
     <<"b","e","t","t","i","n","g">>,
     <<"g","a","m","b","l","e">>,
     <<"s","l","o","t">>,
     <<"r","o","u","l","e","t","t","e">>,
     <<"b","l","a","c","k","j","a","c","k">>,
     <<"b","a","c","c","a","r","a","t">>,
     <<"c","r","a","p","s">>,
     <<"s","p","o","r","t","s","b","o","o","k">>,
     <<"b","o","o","k","m","a","k","e","r">>,
     <<"o","d","d","s">>,
     <<"h","a","n","d","i","c","a","p">>,
     <<"s","p","r","e","a","d">>,
     <<"p","a","r","l","a","y">>,
     <<"U0936","U0930","U094D","U0924">>,
     <<"U091C","U0941","U0906">>,
     <<"U0915","U0948","U0938","U0940","U0928","U094B">>,
     <<"U0932","U0949","U091F","U0930","U0940">>,
     <<"U091C","U0948","U0915","U092A","U0949","U091F">>,
     <<"U0938","U091F","U094D","U091F","U093E">>,
     <<"U092C","U093E","U091C","U0940">>,
     <<"U092A","U0948","U0938","U093E">>,
     <<"U0930","U0941","U092A","U092F","U093E">>,
     <<"U091F","U093F","U0915","U091F">>,
     <<"U0928","U0902","U092C","U0930">>,
     <<"U0917","U0947","U092E">>,
     <<"U0916","U0947","U0932">>,
     <<"U091C","U0940","U0924">>,
     <<"U0939","U093E","U0930">>,
     <<"U092A","U0948","U0938","U093E">>,
     <<"U09AC","U09BE","U099C","U09BF">>,
     <<"U099C","U09C1","U09AF","U09BC","U09BE">>,
     <<"U0995","U09CD","U09AF","U09BE","U09B8","U09BF","U09A8","U09CB">>,
     <<"U09B2","U099F","U09BE","U09B0","U09BF">>,
     <<"U099C","U09CD","U09AF","U09BE","U0995","U09AA","U099F">>,
     <<"U099F","U09BF","U0995","U09BF","U099F">>,
     <<"U09A8","U09AE","U09CD","U09AC","U09B0">>,
     <<"U0997","U09C7","U09AE">>,
     <<"U0996","U09C7","U09B2","U09BE">>,
     <<"U099C","U09AF","U09BC">>,
     <<"U09B9","U09BE","U09B0">>,
     <<"U099F","U09BE","U0995","U09BE">>,
     <<"U0BAA","U0BA8","U0BCD","U0BA4","U0BAF","U0BAE","U0BCD">>,
     <<"U0B9A","U0BC2","U0BA4","U0BBE","U0B9F","U0BCD","U0B9F","U0BAE","U0BCD">>,
     <<"U0BB2","U0BBE","U0B9F","U0BCD","U0B9F","U0BB0","U0BBF">>,
     <<"U0B9C","U0BBE","U0B95","U0BCD","U0BAA","U0BBE","U0B9F","U0BCD">>,
     <<"U0B9F","U0BBF","U0B95","U0BCD","U0B95","U0BC6","U0B9F","U0BCD">>,
     <<"U0B8E","U0BA3","U0BCD">>,
     <<"U0BB5","U0BBF","U0BB3","U0BC8","U0BAF","U0BBE","U0B9F","U0BCD","U0B9F","U0BC1">>,
     <<"U0BB5","U0BBF","U0BB3","U0BC8","U0BAF","U0BBE","U0B9F","U0BC1">>,
     <<"U0BB5","U0BC6","U0BB1","U0BCD","U0BB1","U0BBF">>,
     <<"U0BA4","U0BCB","U0BB2","U0BCD","U0BB5","U0BBF">>,
     <<"U0BAA","U0BA3","U0BAE","U0BCD">>,
     <<"U0C1C","U0C42","U0C26","U0C02">>,
     <<"U0C32","U0C3E","U0C1F","U0C30","U0C40">>,
     <<"U0C15","U0C3E","U0C38","U0C3F","U0C28","U0C4B">>,
     <<"U0C1C","U0C3E","U0C15","U0C4D","U0C2A","U0C3E","U0C1F","U0C4D">>,
     <<"U0C1F","U0C3F","U0C15","U0C46","U0C1F","U0C4D">>,
     <<"U0C38","U0C02","U0C16","U0C4D","U0C2F">>,
     <<"U0C17","U0C47","U0C2E","U0C4D">>,
     <<"U0C06","U0C21","U0C41">>,
     <<"U0C17","U0C46","U0C32","U0C41","U0C2A","U0C41">>,
     <<"U0C13","U0C1F","U0C2E","U0C3F">>,
     <<"U0C21","U0C2C","U0C4D","U0C2C","U0C41">>}

SUSPICIOUS_PATTERNS ==
    << Cat(<<WB, Rep(Cls(Digit), 4, 6), WB>>),
       Cat(<<WB, Rep(Cls(Digit), 10, -1), WB>>),
       Alt(<<Lit(<<"u","r","g","e","n","t">>), Lit(<<"e","m","e","r","g","e","n","c","y">>), Lit(<<"q","u","i","c","k">>), Lit(<<"f","a","s","t">>),
             Lit(<<"i","m","m","e","d","i","a","t","e">>)>>),
       Alt(<<Lit(<<"s","e","c","r","e","t">>), Lit(<<"c","o","n","f","i","d","e","n","t","i","a","l">>), Lit(<<"p","r","i","v","a","t","e">>)>>),
       Alt(<<Lit(<<"c","a","l","l"," ","m","e">>), Lit(<<"c","o","n","t","a","c","t"," ","m","e">>), Lit(<<"m","e","s","s","a","g","e"," ","m","e">>)>>) >>

MAX_DAILY_TRANSACTIONS == 10
MAX_HOURLY_TRANSACTIONS == 5
MAX_SINGLE_TRANSACTION == 50000
SUSPICIOUS_AMOUNT_THRESHOLD == 10000

----------------------------------------------------------------------------
(* Time: datetime.now(), isoformat() and fromisoformat(), timedelta.       *)

\* timedelta(hours=1), timedelta(days=1), timedelta(minutes=5), in minutes
OneHour == 60
OneDay == 1440
FiveMinutes == 5

\* datetime.isoformat(): the date, the hour and the minute of an instant
IsoFormat(t) == <<t \div OneDay, (t % OneDay) \div OneHour, t % OneHour>>

\* datetime.fromisoformat()
FromIsoFormat(iso) == iso[1] * OneDay + iso[2] * OneHour + iso[3]

\* datetime.hour
HourOf(t) == (t % OneDay) \div OneHour

Min(a, b) == IF a <= b THEN a ELSE b
Max(a, b) == IF a >= b THEN a ELSE b

----------------------------------------------------------------------------
(* Request bodies.                                                         *)

Has(d, key) == key \in DOMAIN d

\* data.get('user_id') is truthy: the key is there and is not the empty string
HasUser(d) == Has(d, "user_id") /\ d.user_id # ""

\* a text field that is present and not empty
TextOf(d, key) == IF Has(d, key) THEN d[key] ELSE <<>>

Num(rupees) == [kind |-> "num", paise |-> 100 * rupees]
NumPaise(p) == [kind |-> "num", paise |-> p]

----------------------------------------------------------------------------
(* The ledger: log_transaction and log_voice_command.                      *)

TransactionLimit == 100
VoiceLimit == 50

\* s[-n:]
LastN(s, n) == SubSeq(s, Max(1, Len(s) - n + 1), Len(s))

\* d[key] = value on a dict
SetKey(d, key, value) == (key :> value) @@ d

\* Of a logged request's keys the model keeps user_id and the timestamp
\* log_transaction sets: the service reads no other key of a logged record.
Logged(d) == [k \in DOMAIN d \cap {"user_id"} |-> d[k]]

\* a log_transaction that trims to the oldest records: what the ledger
\* property must tell from the code
LogTransactionKeepingOldest(th, user_id, transaction_data, t) ==
    LET created == IF user_id \notin DOMAIN th THEN SetKey(th, user_id, <<>>) ELSE th
        stamped == SetKey(transaction_data, "timestamp", IsoFormat(t))
        added   == [created EXCEPT ![user_id] = Append(@, stamped)]
    IN  IF Len(added[user_id]) > TransactionLimit
        THEN [added EXCEPT ![user_id] = SubSeq(@, 1, TransactionLimit)]
        ELSE added

LogTransaction(th, user_id, transaction_data, t) ==
    LET created == IF user_id \notin DOMAIN th THEN SetKey(th, user_id, <<>>) ELSE th
        stamped == SetKey(transaction_data, "timestamp", IsoFormat(t))
        added   == [created EXCEPT ![user_id] = Append(@, stamped)]
    IN  IF Len(added[user_id]) > TransactionLimit
        THEN [added EXCEPT ![user_id] = LastN(@, TransactionLimit)]
        ELSE added

LogVoiceCommand(vh, user_id, command, t) ==
    LET created == IF user_id \notin DOMAIN vh THEN SetKey(vh, user_id, <<>>) ELSE vh
        added   == [created EXCEPT ![user_id] =
                        Append(@, [command |-> command, timestamp |-> IsoFormat(t)])]
    IN  IF Len(added[user_id]) > VoiceLimit
        THEN [added EXCEPT ![user_id] = LastN(@, VoiceLimit)]
        ELSE added

\* [r for r in records if now - fromisoformat(r['timestamp']) < window]
Within(records, t, window) ==
    SelectSeq(records, LAMBDA r : t - FromIsoFormat(r.timestamp) < window)

\* history.get(user_id, [])
HistoryOf(h, user_id) == IF user_id \in DOMAIN h THEN h[user_id] ELSE <<>>

----------------------------------------------------------------------------
(* The five rules.                                                         *)

\* keyword.lower() of every keyword
LoweredKeywords == {Lower(keyword) : keyword \in GAMBLING_KEYWORDS}

CheckGamblingKeywords(d) ==
    LET part(key) == IF TextOf(d, key) # <<>> THEN Lower(d[key]) \o <<" ">> ELSE <<>>
        text_to_check == part("description") \o part("voice_command") \o part("recipient_name")
    IN  \E keyword \in LoweredKeywords : Contains(text_to_check, keyword)

\* a rate rule with >= for >: what the rate property must tell from the code
CheckTransactionPatternsAtLeast(d, th, t) ==
    IF ~HasUser(d) THEN FALSE
    ELSE LET user_transactions == HistoryOf(th, d.user_id)
             recent_transactions == Within(user_transactions, t, OneHour)
             daily_transactions == Within(user_transactions, t, OneDay)
         IN  \/ Len(recent_transactions) >= MAX_HOURLY_TRANSACTIONS
             \/ Len(daily_transactions) >= MAX_DAILY_TRANSACTIONS

CheckTransactionPatterns(d, th, t) ==
    IF ~HasUser(d) THEN FALSE
    ELSE LET user_transactions == HistoryOf(th, d.user_id)
             recent_transactions == Within(user_transactions, t, OneHour)
             daily_transactions == Within(user_transactions, t, OneDay)
         IN  \/ Len(recent_transactions) > MAX_HOURLY_TRANSACTIONS
             \/ Len(daily_transactions) > MAX_DAILY_TRANSACTIONS

\* data.get('amount', 0)
AmountOf(d) == IF Has(d, "amount") THEN d.amount ELSE Num(0)

\* amount > MAX_SINGLE_TRANSACTION raises TypeError when amount is no number
AmountRaises(d) == AmountOf(d).kind # "num"

DigitChar(n) == CHOOSE c \in Digit : DigitValue(c) = n

\* str() of a non-negative int
RECURSIVE Str(_)
Str(n) == IF n < 10 THEN <<DigitChar(n)>> ELSE Str(n \div 10) \o <<DigitChar(n % 10)>>

\* int() of a non-negative amount
IntOf(amount) == amount.paise \div 100

CheckAmountPatterns(d) ==
    LET amount == AmountOf(d)
        amount_str == Str(IntOf(amount))
    IN  \/ amount.paise > 100 * MAX_SINGLE_TRANSACTION
        \/ Cardinality({amount_str[i] : i \in DOMAIN amount_str}) = 1
        \/ /\ amount.paise > 100 * SUSPICIOUS_AMOUNT_THRESHOLD
           /\ amount.paise % (100 * 1000) = 0

CheckVoicePatterns(d, vh, t) ==
    LET voice_command == TextOf(d, "voice_command")
        voice_lower == Lower(voice_command)
    IN  IF voice_command = <<>> THEN FALSE
        ELSE \/ \E k \in DOMAIN SUSPICIOUS_PATTERNS : Search(SUSPICIOUS_PATTERNS[k], voice_lower)
             \/ /\ HasUser(d)
                /\ Len(Within(HistoryOf(vh, d.user_id), t, FiveMinutes)) > 3

CheckTimePatterns(t) == HourOf(t) >= 2 /\ HourOf(t) <= 5

----------------------------------------------------------------------------
(* detect_fraud.                                                           *)

\* weights with the gambling rule at 50: what the two-indicator property must
\* tell from the code
WeightGamblingFifty(tag) ==
    CASE tag = "gambling_keywords_detected" -> 50
      [] tag = "suspicious_transaction_pattern" -> 25
      [] tag = "suspicious_amount_pattern" -> 20
      [] tag = "suspicious_voice_pattern" -> 15
      [] tag = "suspicious_time_pattern" -> 10

\* weights with the voice rule at 10: what the score property must tell from the code
WeightVoiceTen(tag) ==
    CASE tag = "gambling_keywords_detected" -> 30
      [] tag = "suspicious_transaction_pattern" -> 25
      [] tag = "suspicious_amount_pattern" -> 20
      [] tag = "suspicious_voice_pattern" -> 10
      [] tag = "suspicious_time_pattern" -> 10

Weight(tag) ==
    CASE tag = "gambling_keywords_detected" -> 30
      [] tag = "suspicious_transaction_pattern" -> 25
      [] tag = "suspicious_amount_pattern" -> 20
      [] tag = "suspicious_voice_pattern" -> 15
      [] tag = "suspicious_time_pattern" -> 10

\* the rules in the order detect_fraud calls them
RuleOrder ==
    << "gambling_keywords_detected", "suspicious_transaction_pattern",
       "suspicious_amount_pattern", "suspicious_voice_pattern", "suspicious_time_pattern" >>

RuleRaises(tag, d) == tag = "suspicious_amount_pattern" /\ AmountRaises(d)

RuleHolds(tag, d, th, vh, t) ==
    CASE tag = "gambling_keywords_detected" -> CheckGamblingKeywords(d)
      [] tag = "suspicious_transaction_pattern" -> CheckTransactionPatterns(d, th, t)
      [] tag = "suspicious_amount_pattern" -> CheckAmountPatterns(d)
      [] tag = "suspicious_voice_pattern" -> CheckVoicePatterns(d, vh, t)
      [] tag = "suspicious_time_pattern" -> CheckTimePatterns(t)

\* a verdict on the score alone: what the is_fraud property must tell from the code
IsFraudByScore(risk_score, indicators) == risk_score >= 50

IsFraud(risk_score, indicators) == risk_score >= 50 \/ Len(indicators) >= 2

Verdict(risk_score, indicators, t) ==
    [ is_fraud |-> IsFraud(risk_score, indicators),
      risk_score |-> Min(risk_score, 100),
      fraud_indicators |-> indicators,
      confidence_pct |-> Min(risk_score, 100),
      timestamp |-> IsoFormat(t) ]

(* The rules from the k-th on, with the indicators and the score so far: a  *)
(* rule that raises ends the call with no verdict.                          *)
RECURSIVE RunRules(_, _, _, _, _, _, _)
RunRules(k, indicators, risk_score, d, th, vh, t) ==
    IF k > Len(RuleOrder)
    THEN [raised |-> FALSE, fraud_indicators |-> indicators, risk_score |-> risk_score]
    ELSE IF RuleRaises(RuleOrder[k], d)
    THEN [raised |-> TRUE, fraud_indicators |-> indicators, risk_score |-> risk_score]
    ELSE IF RuleHolds(RuleOrder[k], d, th, vh, t)
    THEN RunRules(k + 1, Append(indicators, RuleOrder[k]),
                  risk_score + Weight(RuleOrder[k]), d, th, vh, t)
    ELSE RunRules(k + 1, indicators, risk_score, d, th, vh, t)

DetectFraud(d, th, vh, t) == RunRules(1, <<>>, 0, d, th, vh, t)

----------------------------------------------------------------------------
(* extract_voice_intent.                                                   *)

Amount == Grp(1, Plus(Cls(Digit)))
AmountLater == Grp(2, Plus(Cls(Digit)))
Name == Grp(2, Plus(Cls(NameChar)))
NameFirst == Grp(1, Plus(Cls(NameChar)))
Ws == Plus(Cls(Space))

\* each send pattern with its source text, which the code inspects for 'ko'
send_patterns ==
    << [ text |-> <<"s","e","n","d","\\","s","+","(","\\","d","+",")","\\","s","+","t","o","\\","s","+","(","[","a","-","z","A","-","Z","\\","s","]","+",")">>,
         re |-> Cat(<<Lit(<<"s","e","n","d">>), Ws, Amount, Ws, Lit(<<"t","o">>), Ws, Name>>) ],
       [ text |-> <<"(","\\","d","+",")","\\","s","+","r","u","p","e","e","s","?","\\","s","+","t","o","\\","s","+","(","[","a","-","z","A","-","Z","\\","s","]","+",")">>,
         re |-> Cat(<<Amount, Ws, Lit(<<"r","u","p","e","e">>), Opt(<<"chr", "s">>), Ws, Lit(<<"t","o">>), Ws,
                      Name>>) ],
       [ text |-> <<"(","[","a","-","z","A","-","Z","\\","s","]","+",")","\\","s","+","k","o","\\","s","+","(","\\","d","+",")","\\","s","+","b","h","e","j">>,
         re |-> Cat(<<NameFirst, Ws, Lit(<<"k","o">>), Ws, AmountLater, Ws, Lit(<<"b","h","e","j">>)>>) ],
       [ text |-> <<"(","[","a","-","z","A","-","Z","\\","s","]","+",")","\\","s","+","U0915","U094B","\\","s","+","(","\\","d","+",")","\\","s","+","U092D","U0947","U091C">>,
         re |-> Cat(<<NameFirst, Ws, Lit(<<"U0915","U094B">>), Ws, AmountLater, Ws, Lit(<<"U092D","U0947","U091C">>)>>) ] >>

receive_patterns ==
    << Cat(<<Lit(<<"r","e","c","e","i","v","e">>), Ws, Lit(<<"m","o","n","e","y">>)>>),
       Cat(<<Lit(<<"s","h","o","w">>), Ws, Lit(<<"q","r">>)>>),
       Cat(<<Lit(<<"q","r">>), Ws, Lit(<<"c","o","d","e">>)>>),
       Cat(<<Lit(<<"U092A","U0948","U0938","U093E">>), Ws, Lit(<<"U0932","U0947">>)>>),
       Cat(<<Lit(<<"U0915","U094D","U092F","U0942","U0906","U0930">>), Ws, Lit(<<"U0926","U093F","U0916","U093E">>)>>) >>

balance_patterns ==
    << Lit(<<"b","a","l","a","n","c","e">>),
       Cat(<<Lit(<<"h","o","w">>), Ws, Lit(<<"m","u","c","h">>)>>),
       Cat(<<Lit(<<"U0915","U093F","U0924","U0928","U093E">>), Ws, Lit(<<"U092A","U0948","U0938","U093E">>)>>),
       Lit(<<"U092C","U0948","U0932","U0947","U0902","U0938">>),
       Lit(<<"U092C","U093E","U0915","U0940">>) >>

history_patterns ==
    << Lit(<<"h","i","s","t","o","r","y">>), Lit(<<"t","r","a","n","s","a","c","t","i","o","n","s">>), Lit(<<"l","i","s","t">>), Lit(<<"U0907","U0924","U093F","U0939","U093E","U0938">>),
       Lit(<<"U0932","U093F","U0938","U094D","U091F">>) >>

help_patterns ==
    << Lit(<<"h","e","l","p">>),
       Cat(<<Lit(<<"w","h","a","t">>), Ws, Lit(<<"c","a","n">>), Ws, Lit(<<"y","o","u">>), Ws, Lit(<<"d","o">>)>>),
       Lit(<<"U092E","U0926","U0926">>),
       Cat(<<Lit(<<"U0915","U094D","U092F","U093E">>), Ws, Lit(<<"U0915","U0930">>), Ws, Lit(<<"U0938","U0915","U0924","U0947">>), Ws, Lit(<<"U0939","U094B">>)>>) >>

\* help tried before the balance check: what the first-match property must tell
\* from the code
GroupOrderHelpEarly ==
    <<"send_money", "receive_money", "help", "check_balance", "view_history">>

\* the pattern groups in the order extract_voice_intent tries them
GroupOrder == <<"send_money", "receive_money", "check_balance", "view_history", "help">>

PatternsOf(intent) ==
    CASE intent = "send_money" -> [k \in DOMAIN send_patterns |-> send_patterns[k].re]
      [] intent = "receive_money" -> receive_patterns
      [] intent = "check_balance" -> balance_patterns
      [] intent = "view_history" -> history_patterns
      [] intent = "help" -> help_patterns

\* the first pattern of the list, from the k-th on, found in the command; 0 if none
RECURSIVE FirstFound(_, _, _)
FirstFound(patterns, k, command) ==
    IF k > Len(patterns) THEN 0
    ELSE IF Search(patterns[k], command) THEN k
    ELSE FirstFound(patterns, k + 1, command)

\* some pattern of the group is found in the command
GroupMatches(intent, command) == FirstFound(PatternsOf(intent), 1, command) # 0

\* the return for a pattern's match object: the pattern's text decides the
\* groups' roles
SendResult(pattern, command, match) ==
    IF Contains(pattern.text, <<"k","o">>) \/ Contains(pattern.text, <<"U0915","U094B">>)
    THEN [ intent |-> "send_money", recipient |-> Strip(Group(command, match, 1)),
           amount |-> Float(Group(command, match, 2)), confidence_pct |-> 90 ]
    ELSE [ intent |-> "send_money", amount |-> Float(Group(command, match, 1)),
           recipient |-> Strip(Group(command, match, 2)), confidence_pct |-> 90 ]

\* the send-money loop from the k-th pattern on, for a command one of them matches
RECURSIVE SendMoneyFrom(_, _)
SendMoneyFrom(k, command) ==
    IF Search(send_patterns[k].re, command)
    THEN CHOOSE result \in { SendResult(send_patterns[k], command, match) :
                                match \in {SearchMatch(send_patterns[k].re, command)} } : TRUE
    ELSE SendMoneyFrom(k + 1, command)

SendMoney(command) == SendMoneyFrom(1, command)

\* the first group, from the k-th on, that matches the command; 0 if none
RECURSIVE FirstGroup(_, _)
FirstGroup(k, command) ==
    IF k > Len(GroupOrder) THEN 0
    ELSE IF GroupMatches(GroupOrder[k], command) THEN k
    ELSE FirstGroup(k + 1, command)

ExtractVoiceIntent(command) ==
    LET first == FirstGroup(1, command)
    IN  IF first = 0
        THEN [intent |-> "unknown", confidence_pct |-> 10, original_command |-> command]
        ELSE IF GroupOrder[first] = "send_money" THEN SendMoney(command)
        ELSE [intent |-> GroupOrder[first], confidence_pct |-> 80]

----------------------------------------------------------------------------
(* The service: its routes and methods, one call at a time.                *)

EmptyDict == [k \in {} |-> 0]

\* a body's key: left out, or carried with one of the values
Field(key, values) == {EmptyDict} \cup {key :> v : v \in values}

NoAppends == [tx |-> <<>>, voice |-> <<>>]

\* no request is being served
Idle ==
    /\ data = EmptyDict
    /\ response = [status |-> 0]
    /\ fraud_indicators = <<>>

\* nothing runs threaded
Unthreaded ==
    /\ heap = <<>>
    /\ dict = 0
    /\ pc = <<>>
    /\ ref = <<>>

\* FraudDetectionService.__init__
InitService ==
    /\ transaction_history = EmptyDict
    /\ voice_command_history = EmptyDict
    /\ appended = NoAppends
    /\ Idle
    /\ Unthreaded

\* fraud_service.detect_fraud(d), and what the route makes of its outcome
DetectFraudCall(d) ==
    LET out == DetectFraud(d, transaction_history, voice_command_history, now)
    IN  /\ data' = d
        /\ fraud_indicators' = out.fraud_indicators
        /\ response' =
              IF out.raised
              THEN [status |-> 500, error |-> "Internal server error"]
              ELSE [status |-> 200,
                    result |-> Verdict(out.risk_score, out.fraud_indicators, now)]
        /\ UNCHANGED <<transaction_history, voice_command_history, now, appended,
                       heap, dict, pc, ref>>

\* POST /detect-fraud with body d
DetectFraudRoute(d) ==
    /\ data' = d
    /\ IF d = EmptyDict
       THEN /\ response' = [status |-> 400, error |-> "No data provided"]
            /\ fraud_indicators' = <<>>
            /\ UNCHANGED <<transaction_history, voice_command_history>>
       ELSE LET th == IF HasUser(d)
                      THEN LogTransaction(transaction_history, d.user_id, Logged(d), now)
                      ELSE transaction_history
                vh == IF HasUser(d) /\ Has(d, "voice_command")
                      THEN LogVoiceCommand(voice_command_history, d.user_id,
                                           d.voice_command, now)
                      ELSE voice_command_history
                out == DetectFraud(d, th, vh, now)
            IN  /\ transaction_history' = th
                /\ voice_command_history' = vh
                /\ fraud_indicators' = out.fraud_indicators
                /\ response' =
                      IF out.raised
                      THEN [status |-> 500, error |-> "Internal server error"]
                      ELSE [status |-> 200,
                            result |-> Verdict(out.risk_score, out.fraud_indicators, now)]
    /\ UNCHANGED <<now, appended, heap, dict, pc, ref>>

\* POST /process-voice with body d
ProcessVoiceRoute(d) ==
    /\ data' = d
    /\ fraud_indicators' = <<>>
    /\ IF d = EmptyDict \/ ~Has(d, "command")
       THEN /\ response' = [status |-> 400, error |-> "No command provided"]
            /\ UNCHANGED voice_command_history
       ELSE LET command == Lower(d.command)
            IN  /\ voice_command_history' =
                      IF HasUser(d)
                      THEN LogVoiceCommand(voice_command_history, d.user_id, command, now)
                      ELSE voice_command_history
                /\ response' = [status |-> 200, result |-> ExtractVoiceIntent(command)]
    /\ UNCHANGED <<transaction_history, now, appended, heap, dict, pc, ref>>

\* The clock moves on to a later one of the instants; the request served
\* before is over.
Tick(instants) ==
    /\ \E t \in instants : t > now /\ now' = t
    /\ data' = EmptyDict
    /\ response' = [status |-> 0]
    /\ fraud_indicators' = <<>>
    /\ UNCHANGED <<transaction_history, voice_command_history, appended,
                   heap, dict, pc, ref>>

\* d's user has fewer than n requests on record
Room(d, n) == HasUser(d) => Len(HistoryOf(transaction_history, d.user_id)) < n

\* the rule's tag is in the verdict returned
Triggered(tag) ==
    /\ response.status = 200
    /\ \E i \in DOMAIN response.result.fraud_indicators :
          response.result.fraud_indicators[i] = tag

\* the rule was found to hold, whether or not the call went on to a verdict
Fired(tag) == \E i \in DOMAIN fraud_indicators : fraud_indicators[i] = tag

\* how many of the records are younger than the window at instant t
Younger(records, t, window) ==
    Cardinality({i \in DOMAIN records : t - FromIsoFormat(records[i].timestamp) < window})

PayRent == <<"p","a","y"," ","r","e","n","t">>
UrgentNow == <<"U","r","g","e","n","t"," ","n","o","w">>
CasinoBonus == <<"C","a","s","i","n","o"," ","b","o","n","u","s">>
Malformed == [kind |-> "str"]
Null == [kind |-> "null"]

----------------------------------------------------------------------------
(* Spec: the service from its start at 01:00, five minutes of requests     *)
(* that carry voice commands.                                              *)

MaxReq == 4

Requests ==
    {EmptyDict} \cup
    {u @@ a @@ v : u \in Field("user_id", {"u1"}),
                   a \in {"amount" :> x : x \in {Num(12345), Malformed}},
                   v \in Field("voice_command", {<<>>, PayRent, UrgentNow})}

Instants == {60, 65}

Init == InitService /\ now = 60

Next ==
    \/ \E d \in Requests : Room(d, MaxReq) /\ DetectFraudRoute(d)
    \/ Tick(Instants)

Spec == Init /\ [][Next]_vars

\* re.search finds one of SUSPICIOUS_PATTERNS in the lower-cased command
MatchesSuspicious(command) ==
    \E k \in DOMAIN SUSPICIOUS_PATTERNS : Search(SUSPICIOUS_PATTERNS[k], Lower(command))

\* the request served is a /detect-fraud request that got past the empty-body check
DetectServed == response.status \in {200, 500} /\ ~Has(data, "command")

(* C8: for a /detect-fraud request with a user_id and a present             *)
(* voice_command that matches none of the suspicious patterns,              *)
(* suspicious_voice_pattern is triggered if and only if the identity's      *)
(* voice records younger than 5 minutes, this request's included, number    *)
(* more than 3.                                                             *)
C8_VoiceRateRule ==
    (DetectServed /\ HasUser(data) /\ Has(data, "voice_command")
        /\ ~MatchesSuspicious(data.voice_command))
    => ( Triggered("suspicious_voice_pattern")
         <=> Younger(HistoryOf(voice_command_history, data.user_id), now, 5) > 3 )

(* C9: a /detect-fraud request without a user_id leaves both histories of   *)
(* every identity unchanged, still returns a verdict, and in the verdict    *)
(* the transaction-rate rule is not triggered and the voice rule is         *)
(* triggered only by a pattern match.                                       *)
C9_NoUserIsInert ==
    [][ (DetectServed' /\ ~HasUser(data'))
        => /\ transaction_history' = transaction_history
           /\ voice_command_history' = voice_command_history
           /\ response'.status = 200
           /\ ~Triggered("suspicious_transaction_pattern")'
           /\ ( Triggered("suspicious_voice_pattern")'
                => MatchesSuspicious(TextOf(data', "voice_command")) ) ]_vars

----------------------------------------------------------------------------
(* SpecRate: the service from its start at 01:00, a day of requests.       *)

MaxRecords == 11

RateRequests ==
    {u @@ a : u \in Field("user_id", {"", "u1"}),
              a \in {"amount" :> x : x \in {Num(12345), Malformed}}}

RateInstants == {60, 119, 120, 180, 1500}

NextRate ==
    \/ \E d \in RateRequests : Room(d, MaxRecords) /\ DetectFraudRoute(d)
    \/ Tick(RateInstants)

SpecRate == Init /\ [][NextRate]_vars

(* C3: a /detect-fraud request with a user_id is on record before the rules *)
(* are evaluated, and suspicious_transaction_pattern is triggered if and    *)
(* only if the identity's records younger than 1 hour number more than 5 or *)
(* those younger than 24 hours number more than 10, the request's own       *)
(* record counted in both.                                                  *)
C3_RateRuleCountsCurrent ==
    (DetectServed /\ HasUser(data))
    => LET logged == HistoryOf(transaction_history, data.user_id)
           over == Younger(logged, now, 60) > 5 \/ Younger(logged, now, 1440) > 10
       IN  /\ logged # <<>>
           /\ logged[Len(logged)] = [user_id |-> data.user_id, timestamp |-> IsoFormat(now)]
           /\ Fired("suspicious_transaction_pattern") <=> over
           /\ response.status = 200 => (Triggered("suspicious_transaction_pattern") <=> over)
           /\ Younger(logged, now, 60) = 6 => Fired("suspicious_transaction_pattern")
           /\ (Younger(logged, now, 60) = 5 /\ Younger(logged, now, 1440) = 5)
                 => ~Fired("suspicious_transaction_pattern")

\* the sixth request of an identity within the hour triggers the rule
C3_SixthInTheHour ==
    /\ DetectServed /\ HasUser(data)
    /\ Len(HistoryOf(transaction_history, data.user_id)) = 6
    /\ Younger(HistoryOf(transaction_history, data.user_id), now, 60) = 6
    /\ Triggered("suspicious_transaction_pattern")

----------------------------------------------------------------------------
(* SpecVerdict: detect_fraud called once, on a body of any shape, by a      *)
(* service that has logged up to MaxLogged requests and MaxSpoken voice     *)
(* commands of u1 at this instant, at 01:00 or at 02:00.                    *)

MaxLogged == 6
MaxSpoken == 4

\* the transaction history after n requests of u1 at instant t
RECURSIVE LoggedAt(_, _)
LoggedAt(n, t) ==
    IF n = 0 THEN EmptyDict
    ELSE LogTransaction(LoggedAt(n - 1, t), "u1", [user_id |-> "u1"], t)

\* the voice history after n commands of u1 at instant t
RECURSIVE SpokenAt(_, _)
SpokenAt(n, t) ==
    IF n = 0 THEN EmptyDict
    ELSE LogVoiceCommand(SpokenAt(n - 1, t), "u1", PayRent, t)

VerdictRequests ==
    {u @@ a @@ v @@ s : u \in Field("user_id", {"u1"}),
                        a \in Field("amount", {Num(12345), Num(60000), Malformed, Null}),
                        v \in Field("voice_command", {<<>>, PayRent, UrgentNow}),
                        s \in Field("description", {CasinoBonus})}

InitVerdict ==
    /\ now \in {60, 120}
    /\ \E n \in 0..MaxLogged : transaction_history = LoggedAt(n, now)
    /\ \E n \in 0..MaxSpoken : voice_command_history = SpokenAt(n, now)
    /\ appended = NoAppends
    /\ Idle
    /\ Unthreaded

NextVerdict == response.status = 0 /\ \E d \in VerdictRequests : DetectFraudCall(d)

SpecVerdict == InitVerdict /\ [][NextVerdict]_vars

(* C4: in every verdict, is_fraud is true if and only if risk_score >= 50   *)
(* or at least 2 indicators are triggered; the amount rule and the voice    *)
(* rule together (20 + 15) give risk_score 35 and is_fraud true.            *)
C4_IsFraudRule ==
    response.status = 200
    => LET v == response.result
       IN  /\ v.is_fraud <=> (v.risk_score >= 50 \/ Len(v.fraud_indicators) >= 2)
           /\ v.fraud_indicators = <<"suspicious_amount_pattern", "suspicious_voice_pattern">>
                 => (v.risk_score = 35 /\ v.is_fraud)

\* a verdict of exactly the amount rule and the voice rule
C4_AmountAndVoice ==
    /\ response.status = 200
    /\ response.result.fraud_indicators
          = <<"suspicious_amount_pattern", "suspicious_voice_pattern">>
    /\ response.result.risk_score = 35
    /\ response.result.is_fraud

\* the weights the specification gives the rules
ClaimedWeight(tag) ==
    CASE tag = "gambling_keywords_detected" -> 30
      [] tag = "suspicious_transaction_pattern" -> 25
      [] tag = "suspicious_amount_pattern" -> 20
      [] tag = "suspicious_voice_pattern" -> 15
      [] tag = "suspicious_time_pattern" -> 10

RECURSIVE ClaimedSum(_)
ClaimedSum(tags) == IF tags = <<>> THEN 0 ELSE ClaimedWeight(Head(tags)) + ClaimedSum(Tail(tags))

(* C5: in every verdict, risk_score lies in 0..100 and is the smaller of    *)
(* 100 and the sum of the triggered rules' weights (gambling 30, rate 25,   *)
(* amount 20, voice 15, hour 10).                                           *)
C5_ScoreIsClampedSum ==
    response.status = 200
    => LET v == response.result
       IN  /\ v.risk_score \in 0..100
           /\ v.risk_score = Min(ClaimedSum(v.fraud_indicators), 100)
           /\ \A i, j \in DOMAIN v.fraud_indicators :
                 v.fraud_indicators[i] = v.fraud_indicators[j] => i = j

\* a verdict in which all five rules are triggered
C5_AllFive ==
    /\ response.status = 200
    /\ Len(response.result.fraud_indicators) = 5
    /\ response.result.risk_score = 100

\* risk_score before min(., 100): the weights detect_fraud added for the tags
RECURSIVE RawScore(_)
RawScore(tags) == IF tags = <<>> THEN 0 ELSE Weight(Head(tags)) + RawScore(Tail(tags))

(* C11: in every verdict a single triggered rule never gives is_fraud, a    *)
(* risk_score >= 50 comes with at least two indicators, so is_fraud is true *)
(* exactly when at least two indicators are triggered; and min(., 100)      *)
(* never lowers the score, the five weights adding up to exactly 100.       *)
C11_FraudIffTwoIndicators ==
    response.status = 200
    => LET v == response.result
           n == Len(v.fraud_indicators)
       IN  /\ n = 1 => ~v.is_fraud
           /\ v.risk_score >= 50 => n >= 2
           /\ v.is_fraud <=> n >= 2
           /\ v.risk_score = RawScore(v.fraud_indicators)
           /\ RawScore(RuleOrder) = 100

\* a verdict of the heaviest rule alone: score 30, no fraud
C11_GamblingAlone ==
    /\ response.status = 200
    /\ response.result.fraud_indicators = <<"gambling_keywords_detected">>
    /\ response.result.risk_score = 30
    /\ ~response.result.is_fraud

(* C7: when the amount is no number, detect_fraud still returns a verdict,  *)
(* in which the amount rule is untriggered and each other rule is triggered *)
(* exactly when it holds.                                                   *)
C7_MalformedAmountTolerated ==
    (response.status # 0 /\ AmountRaises(data))
    => /\ response.status = 200
       /\ ~Triggered("suspicious_amount_pattern")
       /\ \A tag \in {"gambling_keywords_detected", "suspicious_transaction_pattern",
                      "suspicious_voice_pattern", "suspicious_time_pattern"} :
             Triggered(tag)
             <=> RuleHolds(tag, data, transaction_history, voice_command_history, now)

----------------------------------------------------------------------------
(* SpecAmount: detect_fraud called once by a fresh service at 01:00, on a   *)
(* body that carries at most an amount.                                     *)

MaxRupees == 120

Rupees ==
    (0..MaxRupees) \cup {999, 1000, 1111, 9999, 10000, 11000, 11111, 12345, 15000, 22222,
                         50000, 55555, 60000, 99999}

AmountRequests == Field("amount", {NumPaise(100 * r + p) : r \in Rupees, p \in {0, 50}})

NextAmount == response.status = 0 /\ \E d \in AmountRequests : DetectFraudCall(d)

SpecAmount == Init /\ [][NextAmount]_vars

(* C6: for a non-negative amount (0 when absent) the amount rule holds if   *)
(* and only if amount > 50000, or its integer part has more than one digit  *)
(* and all its digits are the same, or amount > 10000 and amount is a       *)
(* multiple of 1000.                                                        *)
C6_AmountRule ==
    response.status = 200
    => LET paise == AmountOf(data).paise
           digits == Str(paise \div 100)
       IN  Triggered("suspicious_amount_pattern")
           <=> \/ paise > 100 * 50000
               \/ Len(digits) > 1 /\ \A i, j \in DOMAIN digits : digits[i] = digits[j]
               \/ paise > 100 * 10000 /\ paise % (100 * 1000) = 0

----------------------------------------------------------------------------
(* SpecLedger: log_transaction and log_voice_command called for u1, each    *)
(* call with a payload of its own.                                          *)

MaxCalls == 102
MaxVoiceCalls == 52

\* fraud_service.log_transaction(user_id, {'serial': n}), n the call's number
LogTransactionCall(user_id) ==
    LET transaction_data == [serial |-> Len(appended.tx) + 1]
    IN  /\ Len(appended.tx) < MaxCalls
        /\ transaction_history' =
              LogTransaction(transaction_history, user_id, transaction_data, now)
        /\ appended' = [appended EXCEPT
                           !.tx = Append(@, SetKey(transaction_data, "timestamp",
                                                   IsoFormat(now)))]
        /\ UNCHANGED <<voice_command_history, now, data, response, fraud_indicators,
                       heap, dict, pc, ref>>

\* fraud_service.log_voice_command(user_id, str(n)), n the call's number
LogVoiceCommandCall(user_id) ==
    LET command == Str(Len(appended.voice) + 1)
    IN  /\ Len(appended.voice) < MaxVoiceCalls
        /\ voice_command_history' =
              LogVoiceCommand(voice_command_history, user_id, command, now)
        /\ appended' = [appended EXCEPT
                           !.voice = Append(@, [command |-> command,
                                                timestamp |-> IsoFormat(now)])]
        /\ UNCHANGED <<transaction_history, now, data, response, fraud_indicators,
                       heap, dict, pc, ref>>

NextLedger == LogTransactionCall("u1") \/ LogVoiceCommandCall("u1")

SpecLedger == Init /\ [][NextLedger]_vars

\* list holds the last min(n, bound) of the n records of log, in their order
KeepsMostRecent(list, log, bound) ==
    /\ Len(list) <= bound
    /\ Len(list) = Min(Len(log), bound)
    /\ \A i \in 1..Len(list) : list[i] = log[Len(log) - Len(list) + i]

(* C2: after n log_transaction calls for an identity its transaction list   *)
(* holds exactly the most recent min(n, 100) records in the order they were *)
(* appended, and never more than 100; likewise log_voice_command, with 50.  *)
C2_LedgerKeepsMostRecent ==
    /\ KeepsMostRecent(HistoryOf(transaction_history, "u1"), appended.tx, 100)
    /\ KeepsMostRecent(HistoryOf(voice_command_history, "u1"), appended.voice, 50)

\* both lists have evicted their two oldest records
C2_BothEvicted ==
    /\ Len(appended.tx) = 102
    /\ Len(transaction_history["u1"]) = 100
    /\ transaction_history["u1"][1].serial = 3
    /\ Len(appended.voice) = 52
    /\ Len(voice_command_history["u1"]) = 50
    /\ voice_command_history["u1"][1].command = <<"3">>

----------------------------------------------------------------------------
(* SpecConc: /detect-fraud requests of one user served by threads, the      *)
(* steps of log_transaction as the interpreter interleaves them.  A list is *)
(* an object: heap[r] is the content of list r, and dict names the list     *)
(* that transaction_history[USER] is bound to.                              *)

NThreads == 2
USER == "u1"
Threads == 1..NThreads

\* the history after k earlier requests, served one at a time at 01:00
Earlier(k) ==
    IF k = 0 THEN EmptyDict
    ELSE USER :> [j \in 1..k |-> SetKey([serial |-> j], "timestamp", IsoFormat(60))]

\* the request body thread i logs, stamped
TransactionOf(i) == SetKey([serial |-> TransactionLimit + i], "timestamp", IsoFormat(now))

\* transaction_history as the dictionary and the heap give it
View(h, r) == IF r = 0 THEN EmptyDict ELSE (USER :> h[r])

InitConc ==
    /\ now = 60
    /\ \E k \in {0, TransactionLimit - 1, TransactionLimit} :
          /\ transaction_history = Earlier(k)
          /\ heap = IF k = 0 THEN <<>> ELSE <<Earlier(k)[USER]>>
          /\ dict = IF k = 0 THEN 0 ELSE 1
          /\ appended = [tx |-> HistoryOf(Earlier(k), USER), voice |-> <<>>]
    /\ voice_command_history = EmptyDict
    /\ Idle
    /\ pc = [i \in Threads |-> "check"]
    /\ ref = [i \in Threads |-> 0]

\* a step of thread i that leaves the heap to (h, r) and the thread at `to`
Step(i, to, h, r, operand) ==
    /\ pc' = [pc EXCEPT ![i] = to]
    /\ heap' = h
    /\ dict' = r
    /\ ref' = [ref EXCEPT ![i] = operand]
    /\ transaction_history' = View(h, r)
    /\ UNCHANGED <<voice_command_history, now, data, response, fraud_indicators>>

\* if user_id not in self.transaction_history:
Check(i) ==
    /\ pc[i] = "check"
    /\ Step(i, IF dict = 0 THEN "create" ELSE "load", heap, dict, ref[i])
    /\ UNCHANGED appended

\* self.transaction_history[user_id] = []
Create(i) ==
    /\ pc[i] = "create"
    /\ Step(i, "load", Append(heap, <<>>), Len(heap) + 1, ref[i])
    /\ UNCHANGED appended

\* self.transaction_history[user_id], the operand of .append
Load(i) ==
    /\ pc[i] = "load"
    /\ Step(i, "append", heap, dict, dict)
    /\ UNCHANGED appended

\* .append(transaction_data)
AppendTo(i) ==
    /\ pc[i] = "append"
    /\ Step(i, "len", [heap EXCEPT ![ref[i]] = Append(@, TransactionOf(i))], dict, ref[i])
    /\ appended' = [appended EXCEPT !.tx = Append(@, TransactionOf(i))]

\* if len(self.transaction_history[user_id]) > 100:
LenCheck(i) ==
    /\ pc[i] = "len"
    /\ Step(i, IF Len(heap[dict]) > TransactionLimit THEN "slice" ELSE "done",
            heap, dict, ref[i])
    /\ UNCHANGED appended

\* self.transaction_history[user_id][-100:], a new list
Slice(i) ==
    /\ pc[i] = "slice"
    /\ Step(i, "store", Append(heap, LastN(heap[dict], TransactionLimit)), dict,
            Len(heap) + 1)
    /\ UNCHANGED appended

\* self.transaction_history[user_id] = the new list
Store(i) ==
    /\ pc[i] = "store"
    /\ Step(i, "done", heap, ref[i], ref[i])
    /\ UNCHANGED appended

NextConc ==
    \E i \in Threads :
        \/ Check(i)
        \/ Create(i)
        \/ Load(i)
        \/ AppendTo(i)
        \/ LenCheck(i)
        \/ Slice(i)
        \/ Store(i)

SpecConc == InitConc /\ [][NextConc]_vars

(* C1: once all the concurrent requests of the user have finished            *)
(* log_transaction, every record they appended that is among the most       *)
(* recent 100 appended is in the user's transaction history exactly once.   *)
C1_NoLostUpdate ==
    (pc # <<>> /\ \A i \in DOMAIN pc : pc[i] = "done")
    => LET list == HistoryOf(transaction_history, USER)
           recent == LastN(appended.tx, 100)
       IN  \A k \in DOMAIN recent :
              recent[k].serial > TransactionLimit
              => Cardinality({j \in DOMAIN list : list[j] = recent[k]}) = 1

----------------------------------------------------------------------------
(* SpecIntent: /process-voice called once by a fresh service, on a command  *)
(* of up to MaxPhrases phrases.                                             *)

MaxPhrases == 2

Phrases ==
    { <<"s","e","n","d"," ","5","0"," ","t","o"," ","a","l">>, <<"2","0"," ","r","u","p","e","e","s"," ","t","o"," ","a","l">>, <<"a","l"," "," ","k","o"," ","5","0"," ","b","h","e","j">>, <<"a","l"," ","U0915","U094B"," ","5","0"," ","U092D","U0947","U091C">>,
      <<"s","h","o","w"," ","q","r">>, <<"q","r"," ","c","o","d","e">>, <<"B","a","l","a","n","c","e">>, <<"h","o","w"," "," ","m","u","c","h">>, <<"l","i","s","t">>, <<"H","i","s","t","o","r","y">>,
      <<"h","e","l","p">>, <<"U092E","U0926","U0926">>, <<"x","y","z">>, <<"s","e","n","d">> }

\* the commands of at most n phrases, a space between two
RECURSIVE CommandsOf(_)
CommandsOf(n) ==
    IF n = 0 THEN {<<>>}
    ELSE CommandsOf(n - 1) \cup Phrases
            \cup {c \o <<" ">> \o p : c \in CommandsOf(n - 1) \ {<<>>}, p \in Phrases}

IntentRequests == Field("command", CommandsOf(MaxPhrases))

NextIntent == response.status = 0 /\ \E d \in IntentRequests : ProcessVoiceRoute(d)

SpecIntent == Init /\ [][NextIntent]_vars

(* C10: extract_voice_intent returns the intent of the first of the groups  *)
(* send-money, receive-money, balance-check, history, help that matches the *)
(* command, with confidence 0.9 for send_money and 0.8 for the others; a    *)
(* command no group matches gets unknown, 0.1 and the command echoed.       *)
C10_FirstMatchWins ==
    response.status = 200
    => LET command == Lower(data.command)
           r == response.result
           send == GroupMatches("send_money", command)
           receive == GroupMatches("receive_money", command)
           balance == GroupMatches("check_balance", command)
           history == GroupMatches("view_history", command)
           help == GroupMatches("help", command)
       IN  /\ send => (r.intent = "send_money" /\ r.confidence_pct = 90)
           /\ (~send /\ receive) => r = [intent |-> "receive_money", confidence_pct |-> 80]
           /\ (~send /\ ~receive /\ balance)
                 => r = [intent |-> "check_balance", confidence_pct |-> 80]
           /\ (~send /\ ~receive /\ ~balance /\ history)
                 => r = [intent |-> "view_history", confidence_pct |-> 80]
           /\ (~send /\ ~receive /\ ~balance /\ ~history /\ help)
                 => r = [intent |-> "help", confidence_pct |-> 80]
           /\ (~send /\ ~receive /\ ~balance /\ ~history /\ ~help)
                 => r = [intent |-> "unknown", confidence_pct |-> 10,
                         original_command |-> command]

\* a command of the balance group and the help group is a balance check
C10_BalanceBeforeHelp ==
    /\ response.status = 200
    /\ GroupMatches("check_balance", Lower(data.command))
    /\ GroupMatches("help", Lower(data.command))
    /\ response.result = [intent |-> "check_balance", confidence_pct |-> 80]

====
